---- MODULE Spec2Model ----
(***************************************************************************)
(* Model of klpbbs_levels: the EXP <-> level conversion and the           *)
(* interactive session (src/core/query.py), the command line               *)
(* (src/main.py), the level distribution (src/core/distribution.py), the   *)
(* level logic of the SQLite script and the batch of SQL scripts           *)
(* (src/core/sql_generator.py) and the batch of charts                     *)
(* (src/core/chart.py).  One run of the program calls one operation with   *)
(* one argument; the state is that call and its result.  The interactive   *)
(* session takes one step for each event at its prompt.                    *)
(*                                                                         *)
(* The code computes in binary floating point.  The model carries every    *)
(* real number as a fixed-point value <<i, f>> standing for i + f / 2^30   *)
(* (i >= 0 the integer part, 0 <= f < 2^30 the fraction), and evaluates    *)
(* log, exp, division and power by argument reduction and power series on  *)
(* such values, every intermediate kept below 2^31.  A negative real (only *)
(* the logarithm of a value below 1 is one) is a pair <<neg, magnitude>>.  *)
(***************************************************************************)
EXTENDS Integers, Sequences, FiniteSets, TLC

----------------------------------------------------------------------------
(* Fixed-point reals.  The operations are functions, so that an argument   *)
(* is a value when the operation starts.                                   *)

\* the fixed-point values <<i, f>>
Fx == Int \X Int

\* one limb: the fraction is two limbs of 15 bits
Limb == 2^15
\* 2^30, the weight of the integer part
Frac == Limb * Limb

FromInt(n) == <<n, 0>>
One == FromInt(1)

Less[x \in Fx, y \in Fx] == x[1] < y[1] \/ (x[1] = y[1] /\ x[2] < y[2])

Add[x \in Fx, y \in Fx] ==
    LET s == x[2] + y[2]
    IN  <<x[1] + y[1] + (s \div Frac), s % Frac>>

\* x - y for x >= y
Sub[x \in Fx, y \in Fx] ==
    IF x[2] < y[2] THEN <<x[1] - y[1] - 1, x[2] - y[2] + Frac>>
                   ELSE <<x[1] - y[1], x[2] - y[2]>>

\* x * y, rounded in the last place; integer parts below 2^14
Mul[x \in Fx, y \in Fx] ==
    LET ai == x[1]
        a1 == x[2] \div Limb
        a2 == x[2] % Limb
        bi == y[1]
        b1 == y[2] \div Limb
        b2 == y[2] % Limb
        c2 == (a1 * b2 + a2 * b1 + ((a2 * b2) \div Limb) + (Limb \div 2)) \div Limb
        p2 == ai * b2 + a2 * bi + a1 * b1 + c2
        p1 == ai * b1 + a1 * bi + (p2 \div Limb)
    IN  <<ai * bi + (p1 \div Limb), (p1 % Limb) * Limb + (p2 % Limb)>>

\* x / d for an integer 0 < d < 2^15
DivSmall[x \in Fx, d \in Nat] ==
    LET t1 == (x[1] % d) * Limb + (x[2] \div Limb)
        t2 == (t1 % d) * Limb + (x[2] % Limb)
    IN  <<x[1] \div d, (t1 \div d) * Limb + (t2 \div d)>>

\* one Newton step for 1 / y from the estimate r
Newton[y \in Fx, r \in Fx] == Mul[r, Sub[FromInt(2), Mul[y, r]]]

\* 1 / y for y >= 1/2: a 15-bit quotient refined by two Newton steps
Recip[y \in Fx] ==
    LET q == Frac \div (y[1] * Limb + (y[2] \div Limb))
    IN  Newton[y, Newton[y, <<q \div Limb, (q % Limb) * Limb>>]]

Div[x \in Fx, y \in Fx] == Mul[x, Recip[y]]

\* the position of the leading bit of n, 1 <= n < 2^31
Log2[n \in Nat] == CHOOSE k \in 0..30 : n \div 2^k = 1

\* x * 2^k
ShiftL[x \in Fx, k \in Nat] ==
    <<x[1] * 2^k + (x[2] \div 2^(30 - k)), (x[2] % 2^(30 - k)) * 2^k>>

\* x / 2^k for x < 2
ShiftR[x \in Fx, k \in Nat] ==
    IF k > 30 THEN <<0, 0>>
    ELSE IF k = 0 THEN x
    ELSE <<0, x[1] * 2^(30 - k) + (x[2] \div 2^k)>>

\* number of terms of the series for log and for exp
LnTerms == 9
ExpTerms == 12

\* 1/(2k+1) + w * (1/(2k+3) + w * ( ... 1/(2*LnTerms+1)))
AtanhTail[w \in Fx, k \in Nat] ==
    IF k >= LnTerms THEN DivSmall[One, 2 * k + 1]
    ELSE Add[DivSmall[One, 2 * k + 1], Mul[w, AtanhTail[w, k + 1]]]

\* 2 * atanh(z) = ln((1 + z) / (1 - z)) for 0 <= z <= 1/3
Atanh2[z \in Fx] == ShiftL[Mul[z, AtanhTail[Mul[z, z], 0]], 1]

\* ln(1 + f / 2^30)
LnMant[f \in Nat] == Atanh2[Div[<<0, f>>, <<2, f>>]]

LN2 == Atanh2[DivSmall[One, 3]]

\* the leading bit of x and the fraction of x scaled to [1, 2)
Normal[x \in Fx] ==
    IF x[1] >= 1
    THEN LET k == Log2[x[1]]
         IN  <<k, (x[1] - 2^k) * 2^(30 - k) + (x[2] \div 2^k)>>
    ELSE LET j == Log2[x[2]]
         IN  <<j - 30, (x[2] - 2^j) * 2^(30 - j)>>

\* k * ln2 + m as <<negative, magnitude>>, for 0 <= m < ln2
LogSum[k \in Int, ln2 \in Fx, m \in Fx] ==
    IF k >= 0 THEN <<FALSE, Add[Mul[FromInt(k), ln2], m]>>
              ELSE <<TRUE, Sub[Mul[FromInt(0 - k), ln2], m]>>

\* the logarithm of the value with leading bit n[1] and fraction n[2]
LogNormal[n \in Int \X Nat] == LogSum[n[1], LN2, LnMant[n[2]]]

\* np.log: the natural logarithm of x > 0, as <<negative, magnitude>>
np_log[x \in Fx] == LogNormal[Normal[x]]

\* 1 + r/k * (1 + r/(k+1) * ( ... (1 + r/ExpTerms)))
ExpTail[r \in Fx, k \in Nat] ==
    IF k > ExpTerms THEN One
    ELSE Add[One, DivSmall[Mul[r, ExpTail[r, k + 1]], k]]

InvLN2 == ShiftL[Recip[ShiftL[LN2, 1]], 1]

\* e^y for y >= 0, k the integer part of y / ln2 or one above it
ExpPos[y \in Fx, k \in Nat, ln2 \in Fx] ==
    IF Less[y, Mul[FromInt(k), ln2]]
    THEN ShiftL[ExpTail[Sub[y, Mul[FromInt(k - 1), ln2]], 1], k - 1]
    ELSE ShiftL[ExpTail[Sub[y, Mul[FromInt(k), ln2]], 1], k]

\* e^(-y) for y >= 0, k above the integer part of y / ln2
ExpNeg[y \in Fx, k \in Nat, ln2 \in Fx] ==
    IF Less[Mul[FromInt(k), ln2], y]
    THEN ShiftR[ExpTail[Sub[Mul[FromInt(k + 1), ln2], y], 1], k + 1]
    ELSE ShiftR[ExpTail[Sub[Mul[FromInt(k), ln2], y], 1], k]

\* e^y, or e^(-y) when neg, with q the integer part of y / ln2
ExpSigned[neg \in BOOLEAN, y \in Fx, q \in Nat, ln2 \in Fx] ==
    IF neg THEN ExpNeg[y, q + 1, ln2] ELSE ExpPos[y, q, ln2]

\* np.exp: e^y, or e^(-y) when neg, for a magnitude y >= 0
np_exp[neg \in BOOLEAN, y \in Fx] == ExpSigned[neg, y, Mul[y, InvLN2][1], LN2]

\* b ** g for b > 0, g > 0
Scale[l \in BOOLEAN \X Fx, g \in Fx] == np_exp[l[1], Mul[g, l[2]]]
pow[b \in Fx, g \in Fx] == Scale[np_log[b], g]

\* int(): truncation of a non-negative real
int(x) == x[1]

Min(a, b) == IF a < b THEN a ELSE b
Max(a, b) == IF a > b THEN a ELSE b

----------------------------------------------------------------------------
(* src/core/query.py                                                       *)

exp_cap == 50000
gamma == DivSmall[FromInt(345), 100]
\* np.log(exp_cap + 1)
LogCap == np_log[FromInt(exp_cap + 1)][2]
\* float("inf"): above every EXP
Inf == 2147483647

\* exp_to_level without the cap at 50
exp_to_level_nomin(exp0) ==
    LET exp == Max(exp0, 0)
    IN  IF exp = 0 THEN 1
        ELSE LET base   == Div[np_log[FromInt(exp + 1)][2], LogCap]
                 scaled == pow[base, gamma]
                 level  == Add[One, Mul[FromInt(49), scaled]]
             IN  int(level)

\* exp_to_level taking the absolute value of a negative EXP
exp_to_level_abs(exp0) ==
    LET exp == IF exp0 < 0 THEN -exp0 ELSE exp0
    IN  IF exp = 0 THEN 1
        ELSE LET base   == Div[np_log[FromInt(exp + 1)][2], LogCap]
                 scaled == pow[base, gamma]
                 level  == Add[One, Mul[FromInt(49), scaled]]
             IN  Min(50, int(level))

\* exp_to_level returning 0 for EXP 0
exp_to_level_zero(exp0) ==
    LET exp == Max(exp0, 0)
    IN  IF exp = 0 THEN 0
        ELSE LET base   == Div[np_log[FromInt(exp + 1)][2], LogCap]
                 scaled == pow[base, gamma]
                 level  == Add[One, Mul[FromInt(49), scaled]]
             IN  Min(50, int(level))

\* exp_to_level without the offset 1 of the continuous level
exp_to_level_nooffset(exp0) ==
    LET exp == Max(exp0, 0)
    IN  IF exp = 0 THEN 1
        ELSE LET base   == Div[np_log[FromInt(exp + 1)][2], LogCap]
                 scaled == pow[base, gamma]
                 level  == Mul[FromInt(49), scaled]
             IN  Min(50, int(level))

exp_to_level(exp0) ==
    LET exp == Max(exp0, 0)
    IN  IF exp = 0 THEN 1
        ELSE LET base   == Div[np_log[FromInt(exp + 1)][2], LogCap]
                 scaled == pow[base, gamma]
                 level  == Add[One, Mul[FromInt(49), scaled]]
             IN  Min(50, int(level))

\* level_to_min_exp raising to gamma instead of 1 / gamma
level_to_min_exp_gamma(level) ==
    IF level <= 1 THEN 0
    ELSE IF level >= 50 THEN 50000
    ELSE LET scaled == DivSmall[FromInt(level - 1), 49]
             base   == pow[scaled, gamma]
             exp    == Sub[np_exp[FALSE, Mul[base, LogCap]], One]
         IN  int(exp)

\* level_to_min_exp returning 1 at the lower boundary
level_to_min_exp_low(level) ==
    IF level <= 1 THEN 1
    ELSE IF level >= 50 THEN 50000
    ELSE LET scaled == DivSmall[FromInt(level - 1), 49]
             base   == pow[scaled, Recip[gamma]]
             exp    == Sub[np_exp[FALSE, Mul[base, LogCap]], One]
         IN  int(exp)

\* level_to_min_exp with the upper boundary pinned to 5000
level_to_min_exp_pin(level) ==
    IF level <= 1 THEN 0
    ELSE IF level >= 50 THEN 5000
    ELSE LET scaled == DivSmall[FromInt(level - 1), 49]
             base   == pow[scaled, Recip[gamma]]
             exp    == Sub[np_exp[FALSE, Mul[base, LogCap]], One]
         IN  int(exp)

level_to_min_exp(level) ==
    IF level <= 1 THEN 0
    ELSE IF level >= 50 THEN 50000
    ELSE LET scaled == DivSmall[FromInt(level - 1), 49]
             base   == pow[scaled, Recip[gamma]]
             exp    == Sub[np_exp[FALSE, Mul[base, LogCap]], One]
         IN  int(exp)

----------------------------------------------------------------------------
\* get_level_range without the - 1 of the upper end
get_level_range_open(level) ==
    LET min_exp == level_to_min_exp(level)
        max_exp == IF level < 50 THEN level_to_min_exp(level + 1) ELSE Inf
    IN  <<min_exp, max_exp>>

get_level_range(level) ==
    LET min_exp == level_to_min_exp(level)
        max_exp == IF level < 50 THEN level_to_min_exp(level + 1) - 1 ELSE Inf
    IN  <<min_exp, max_exp>>

\* batch_exp_to_level filling the result from the back
batch_exp_to_level_rev(exp_list) ==
    [i \in 1..Len(exp_list) |-> exp_to_level(exp_list[Len(exp_list) + 1 - i])]

\* [exp_to_level(exp) for exp in exp_list]
batch_exp_to_level(exp_list) ==
    [i \in 1..Len(exp_list) |-> exp_to_level(exp_list[i])]

(* src/main.py, cmd_query with --exp: what it prints for a level and its   *)
(* range; remaining is the EXP to the next level, printed when level < 50. *)
PrintExpResult(exp, level, range) ==
    [exp |-> exp, level |-> level,
     min_exp |-> range[1], max_exp |-> range[2],
     at_max |-> ~(level < 50),
     remaining |-> IF level < 50 THEN level_to_min_exp(level + 1) - exp ELSE 0]

(* src/main.py, cmd_query with --level: the calls it makes and what it    *)
(* prints.  calls lists the arguments of its calls of level_to_min_exp.    *)
query_level_from0(level) ==
    IF 0 <= level /\ level <= 50
    THEN LET min_exp == level_to_min_exp(level)
             max_exp == IF level < 50 THEN level_to_min_exp(level + 1) - 1 ELSE Inf
         IN  [error |-> FALSE, raised |-> FALSE,
              calls |-> IF level < 50 THEN <<level, level + 1>> ELSE <<level>>,
              printed |-> <<level, min_exp, max_exp>>]
    ELSE [error |-> TRUE, raised |-> FALSE, calls |-> <<>>, printed |-> <<>>]

query_level(level) ==
    IF 1 <= level /\ level <= 50
    THEN LET min_exp == level_to_min_exp(level)
             max_exp == IF level < 50 THEN level_to_min_exp(level + 1) - 1 ELSE Inf
         IN  [error |-> FALSE, raised |-> FALSE,
              calls |-> IF level < 50 THEN <<level, level + 1>> ELSE <<level>>,
              printed |-> <<level, min_exp, max_exp>>]
    ELSE [error |-> TRUE, raised |-> FALSE, calls |-> <<>>, printed |-> <<>>]

----------------------------------------------------------------------------
(* Text.  A string is the sequence of its characters.                      *)

Str == Seq(STRING)

Digits == <<"0", "1", "2", "3", "4", "5", "6", "7", "8", "9">>

IsDigit(c) == \E d \in 1..10 : Digits[d] = c
DigitValue(c) == (CHOOSE d \in 1..10 : Digits[d] = c) - 1

\* str.strip(): without the blanks at both ends
strip[s \in Str] ==
    IF s = <<>> THEN s
    ELSE IF Head(s) = " " THEN strip[Tail(s)]
    ELSE IF s[Len(s)] = " " THEN strip[SubSeq(s, 1, Len(s) - 1)]
    ELSE s

\* str.lower() on the letters of the model
lower[s \in Str] == [i \in 1..Len(s) |-> IF s[i] = "Q" THEN "q" ELSE s[i]]

\* the number written by a sequence of digits
DecimalValue[s \in Str] ==
    IF s = <<>> THEN 0
    ELSE 10 * DecimalValue[SubSeq(s, 1, Len(s) - 1)] + DigitValue(s[Len(s)])

AllDigits(s) == s # <<>> /\ \A i \in 1..Len(s) : IsDigit(s[i])

\* int(text) on the text without blanks at its ends: an optional sign and
\* digits give <<TRUE, value>>, anything else is a ValueError, <<FALSE, 0>>
IntOfStripped[s \in Str] ==
    IF AllDigits(s) THEN <<TRUE, DecimalValue[s]>>
    ELSE IF s # <<>> /\ Head(s) = "-" /\ AllDigits(Tail(s))
         THEN <<TRUE, 0 - DecimalValue[Tail(s)]>>
    ELSE IF s # <<>> /\ Head(s) = "+" /\ AllDigits(Tail(s))
         THEN <<TRUE, DecimalValue[Tail(s)]>>
    ELSE <<FALSE, 0>>

py_int(s) == IntOfStripped[strip[s]]

\* str.split("-"): the parts between the separators
split[s \in Str] ==
    IF \E i \in 1..Len(s) : s[i] = "-"
    THEN LET i == CHOOSE k \in 1..Len(s) :
                      s[k] = "-" /\ \A j \in 1..(k - 1) : s[j] # "-"
         IN  <<SubSeq(s, 1, i - 1)>> \o split[SubSeq(s, i + 1, Len(s))]
    ELSE <<s>>

----------------------------------------------------------------------------
(* src/core/distribution.py                                                *)

\* min_exp, max_exp = map(int, parts): both parts are integers and there
\* are exactly two of them, or the statement raises
UnpackTwo[parts \in Seq(Str)] ==
    IF Len(parts) = 2 /\ py_int(parts[1])[1] /\ py_int(parts[2])[1]
    THEN [raised |-> FALSE, value |-> <<py_int(parts[1])[2], py_int(parts[2])[2]>>]
    ELSE [raised |-> TRUE, value |-> <<0, 0>>]

\* the first two parts, the others ignored
UnpackFirstTwo[parts \in Seq(Str)] ==
    IF py_int(parts[1])[1] /\ py_int(parts[2])[1]
    THEN [raised |-> FALSE, value |-> <<py_int(parts[1])[2], py_int(parts[2])[2]>>]
    ELSE [raised |-> TRUE, value |-> <<0, 0>>]

\* the body of the try of parse_exp_range
ParseBody(exp_group, unpacked) ==
    IF \E i \in 1..Len(exp_group) : exp_group[i] = "-"
    THEN unpacked
    ELSE IF py_int(exp_group)[1]
         THEN [raised |-> FALSE,
               value |-> <<py_int(exp_group)[2], py_int(exp_group)[2]>>]
         ELSE [raised |-> TRUE, value |-> <<0, 0>>]

\* try: ... except: return 0, 0
ExceptAll(body) ==
    IF body.raised THEN [raised |-> FALSE, value |-> <<0, 0>>] ELSE body

\* parse_exp_range taking the first two parts of a label with more
parse_exp_range_first(exp_group) ==
    ExceptAll(ParseBody(exp_group, UnpackFirstTwo[split[exp_group]]))

parse_exp_range(exp_group) ==
    ExceptAll(ParseBody(exp_group, UnpackTwo[split[exp_group]]))

\* the level of the midpoint of the range of a row <<exp_group, count>>
RowLevel(row) ==
    LET range == parse_exp_range(row[1]).value
    IN  exp_to_level((range[1] + range[2]) \div 2)

\* level_distribution, a dict, as the sequence of its <<level, count>>
\* items in insertion order
Dict == Seq(Int \X Int)

HasKey(d, level) == \E i \in 1..Len(d) : d[i][1] = level

\* level_distribution[level] += count, or = count for a new level
DictAdd[d \in Dict, level \in Int, count \in Int] ==
    IF HasKey(d, level)
    THEN [i \in 1..Len(d) |->
            IF d[i][1] = level THEN <<level, d[i][2] + count>> ELSE d[i]]
    ELSE Append(d, <<level, count>>)

\* level_distribution[level] = count
DictSet[d \in Dict, level \in Int, count \in Int] ==
    IF HasKey(d, level)
    THEN [i \in 1..Len(d) |-> IF d[i][1] = level THEN <<level, count>> ELSE d[i]]
    ELSE Append(d, <<level, count>>)

\* the loop over the first k rows of df
Accumulate[df \in Seq(Str \X Int), k \in Nat] ==
    IF k = 0 THEN <<>>
    ELSE DictAdd[Accumulate[df, k - 1], RowLevel(df[k]), df[k][2]]

AccumulateSet[df \in Seq(Str \X Int), k \in Nat] ==
    IF k = 0 THEN <<>>
    ELSE DictSet[AccumulateSet[df, k - 1], RowLevel(df[k]), df[k][2]]

\* the rows {"level", "user_count"} for the sorted items of the dict
ResultRows(d) ==
    LET items == SortSeq(d, LAMBDA a, b : a[1] < b[1])
    IN  [i \in 1..Len(items) |->
            [level |-> items[i][1], user_count |-> items[i][2]]]

\* calculate_level_distribution overwriting the count of a level seen before
calculate_level_distribution_set(df) == ResultRows(AccumulateSet[df, Len(df)])

\* calculate_level_distribution, without the percentage column
calculate_level_distribution(df) == ResultRows(Accumulate[df, Len(df)])

----------------------------------------------------------------------------
(* src/core/sql_generator.py: the level the SQLite script assigns.         *)

\* the WHEN exp <= bound THEN level branches, in the order of the script
SqlCase ==
    << <<0, 1>>, <<50, 2>>, <<100, 2>>, <<200, 3>>, <<500, 4>>, <<800, 5>>,
       <<1000, 6>>, <<1500, 7>>, <<2000, 8>>, <<2500, 9>>, <<3000, 10>>,
       <<4000, 11>>, <<5000, 12>>, <<6000, 13>>, <<7000, 14>>, <<8000, 15>>,
       <<9000, 16>>, <<10000, 19>>, <<12000, 21>>, <<15000, 26>>,
       <<18000, 29>>, <<20000, 33>>, <<25000, 40>>, <<30000, 43>>,
       <<40000, 47>> >>

\* CAST((1 + 49 * POWER(LOG(exp + 1) / LOG(50001), 3.45)) AS INTEGER);
\* the quotient of the two logarithms does not depend on their base
sqlite_formula(exp) ==
    LET base   == Div[np_log[FromInt(exp + 1)][2], np_log[FromInt(50001)][2]]
        scaled == pow[base, gamma]
    IN  int(Add[One, Mul[FromInt(49), scaled]])

\* the CASE expression: the first branch whose condition holds
sqlite_level(exp) ==
    IF \E i \in 1..Len(SqlCase) : exp <= SqlCase[i][1]
    THEN SqlCase[CHOOSE i \in 1..Len(SqlCase) :
                    /\ exp <= SqlCase[i][1]
                    /\ \A j \in 1..(i - 1) : ~(exp <= SqlCase[j][1])][2]
    ELSE IF exp >= 50000 THEN 50
    ELSE sqlite_formula(exp)

----------------------------------------------------------------------------
(* src/core/chart.py and src/core/sql_generator.py: the two batches.  An   *)
(* artifact of fails is one whose generation raises.  attempted lists the  *)
(* artifacts whose generation was started, reported those whose failure    *)
(* was printed; raised tells whether the exception left the function.      *)

charts ==
    <<"level_curve.png", "level_comparison.png", "level_growth_rate.png",
      "exp_requirements.png">>

scripts == <<"mysql", "postgresql", "sqlite">>

\* for ... : try: chart_func() except Exception: print(...), over the first
\* k charts
ChartLoop[fails \in SUBSET STRING, k \in Nat] ==
    IF k = 0 THEN [attempted |-> <<>>, reported |-> <<>>, raised |-> FALSE]
    ELSE LET before == ChartLoop[fails, k - 1]
         IN  [attempted |-> Append(before.attempted, charts[k]),
              reported  |-> IF charts[k] \in fails
                            THEN Append(before.reported, charts[k])
                            ELSE before.reported,
              raised    |-> FALSE]

generate_all_charts(fails) == ChartLoop[fails, Len(charts)]

\* for ... : generator(table_name, output_path), over the first k scripts:
\* an exception ends the loop and leaves the function
ScriptLoop[fails \in SUBSET STRING, k \in Nat] ==
    IF k = 0 THEN [attempted |-> <<>>, reported |-> <<>>, raised |-> FALSE]
    ELSE LET before == ScriptLoop[fails, k - 1]
         IN  IF before.raised THEN before
             ELSE [attempted |-> Append(before.attempted, scripts[k]),
                   reported  |-> before.reported,
                   raised    |-> scripts[k] \in fails]

generate_all_sql_scripts(fails) == ScriptLoop[fails, Len(scripts)]

----------------------------------------------------------------------------
(* src/main.py, main.  argv is the command line after the program name;    *)
(* outcome is how the handler of the command ends when it is run.  The     *)
(* options of the subcommands are left out.                                *)

Commands == {"query", "chart", "distribution", "sql", "demo"}

\* parser.parse_args(): the parser declares the five subcommands and no
\* --debug option; an undeclared option or a second positional is an
\* error, which prints the usage and exits with status 2
ParseArgs(argv) ==
    IF argv = <<>> THEN [ok |-> TRUE, command |-> "none"]
    ELSE IF Len(argv) = 1 /\ argv[1] \in Commands
         THEN [ok |-> TRUE, command |-> argv[1]]
    ELSE [ok |-> FALSE, command |-> "none"]

InArgv(word, argv) == \E i \in 1..Len(argv) : argv[i] = word

main(argv, outcome) ==
    LET args == ParseArgs(argv)
    IN  IF ~args.ok
        THEN [exit |-> "SystemExit", handler |-> FALSE, message |-> FALSE,
              trace |-> FALSE]
        ELSE IF args.command = "none"
        THEN [exit |-> "return", handler |-> FALSE, message |-> FALSE,
              trace |-> FALSE]
        ELSE [exit |-> "return", handler |-> TRUE,
              message |-> outcome = "Exception",
              trace |-> outcome = "Exception" /\ InArgv("--debug", argv)]

----------------------------------------------------------------------------
(* src/core/query.py, interactive_query: one pass of the loop for one      *)
(* event at the prompt.                                                    *)

\* what one pass prints
Printed(kind, exp, level) == [kind |-> kind, exp |-> exp, level |-> level]

\* input() returns line
LoopLine(session, line) ==
    LET user_input == strip[line]
        exp == IntOfStripped[user_input]
    IN  IF lower[user_input] = <<"q">>
        THEN [pc |-> "exited", out |-> Append(session.out, Printed("quit", 0, 0))]
        ELSE IF ~exp[1]
        THEN [pc |-> "prompt", out |-> Append(session.out, Printed("invalid", 0, 0))]
        ELSE [pc |-> "prompt",
              out |-> Append(session.out,
                             Printed("level", exp[2], exp_to_level(exp[2])))]

\* input() raises KeyboardInterrupt
LoopInterrupt(session) ==
    [pc |-> "exited", out |-> Append(session.out, Printed("interrupted", 0, 0))]

\* input() raises EOFError, which neither except clause names
LoopEOF(session) == [pc |-> "raised", out |-> session.out]

----------------------------------------------------------------------------
(* The inputs of the model                                                 *)

\* EXP arguments go down to -MaxNeg
MaxNeg == 40
\* every EXP from 0 to MaxDense
MaxDense == 150
\* the EXP within Window of the minimum EXP of every level
Window == 1
\* the EXP up to MaxOver above the cap
MaxOver == 2
\* level arguments from -MaxLevelOver to 50 + MaxLevelOver
MaxLevelOver == 3

LevelDomain == (0 - MaxLevelOver)..(50 + MaxLevelOver)

\* far above the cap
FarExp == {2 * exp_cap, 20 * exp_cap, 20000 * exp_cap}

\* the bounds of the branches of the SQLite script and the EXP just above
SqlBounds == {SqlCase[i][1] + d : i \in 1..Len(SqlCase), d \in 0..1}

ExpDomain ==
    ((0 - MaxNeg)..MaxDense)
        \cup {level_to_min_exp(l) + d : l \in 2..49, d \in (0 - Window)..Window}
        \cup ((exp_cap - MaxOver)..(exp_cap + MaxOver))
        \cup FarExp
        \cup SqlBounds

\* batches of at most MaxBatch EXP values drawn from BatchExp
MaxBatch == 3
BatchExp == {-1, 0, 33, 500, exp_cap}
BatchInputs == UNION {[1..n -> BatchExp] : n \in 0..MaxBatch}

\* the labels of at most MaxLabelLen characters of LabelChars
MaxLabelLen == 4
LabelChars == {"1", "9", "-", "x", " "}
Labels == UNION {[1..n -> LabelChars] : n \in 0..MaxLabelLen}

\* tables of 1..MaxRows rows, a label of DistLabels and a count of Counts
MaxRows == 2
DistLabels ==
    { <<"0", "-", "9">>, <<"1", "0", "-", "1", "9">>, <<"4", "0", "-", "6", "0">>,
      <<"5", "0", "0">>, <<"x", "-", "1">> }
Counts == {1, 3}
Tables == UNION {[1..n -> DistLabels \X Counts] : n \in 1..MaxRows}

\* the artifacts whose generation raises
ChartFails == SUBSET {charts[i] : i \in 1..Len(charts)}
ScriptFails == SUBSET {scripts[i] : i \in 1..Len(scripts)}

\* command lines of at most MaxArgs words, and how the handler ends
MaxArgs == 2
Words == Commands \cup {"--debug"}
Argvs == UNION {[1..n -> Words] : n \in 0..MaxArgs}
Outcomes == {"ok", "Exception", "KeyboardInterrupt"}

\* sessions of at most MaxEvents events at the prompt
MaxEvents == 3
Lines ==
    { <<"q">>, <<"Q">>, <<" ", "q", " ">>, <<"1", "2">>, <<" ", "5", "0", "0">>,
      <<"-", "5">>, <<"a", "b", "c">>, <<>>, <<"q", "q">> }

----------------------------------------------------------------------------
(* The state: one run calls one operation with one argument; op is the     *)
(* operation, arg its argument, ret what it returned or printed.           *)
VARIABLES op, arg, ret

vars == <<op, arg, ret>>

Init == op = "start" /\ arg = 0 /\ ret = 0

Call_exp_to_level ==
    /\ op = "start"
    /\ \E e \in ExpDomain :
        /\ op' = "exp_to_level"
        /\ arg' = e
        /\ ret' = exp_to_level(e)

Call_level_to_min_exp ==
    /\ op = "start"
    /\ \E l \in LevelDomain :
        /\ op' = "level_to_min_exp"
        /\ arg' = l
        /\ ret' = level_to_min_exp(l)

Call_get_level_range ==
    /\ op = "start"
    /\ \E l \in LevelDomain :
        /\ op' = "get_level_range"
        /\ arg' = l
        /\ ret' = get_level_range(l)

cmd_query_exp ==
    /\ op = "start"
    /\ \E exp \in ExpDomain :
        LET level == exp_to_level(exp)
        IN  /\ op' = "cmd_query_exp"
            /\ arg' = exp
            /\ ret' = PrintExpResult(exp, level, get_level_range(level))

Call_batch_exp_to_level ==
    /\ op = "start"
    /\ \E exp_list \in BatchInputs :
        /\ op' = "batch_exp_to_level"
        /\ arg' = exp_list
        /\ ret' = batch_exp_to_level(exp_list)

Call_parse_exp_range ==
    /\ op = "start"
    /\ \E exp_group \in Labels :
        /\ op' = "parse_exp_range"
        /\ arg' = exp_group
        /\ ret' = parse_exp_range(exp_group)

Call_calculate_level_distribution ==
    /\ op = "start"
    /\ \E df \in Tables :
        /\ op' = "calculate_level_distribution"
        /\ arg' = df
        /\ ret' = calculate_level_distribution(df)

\* the UPDATE of the SQLite script on a row whose exp is not NULL
Run_sqlite_update ==
    /\ op = "start"
    /\ \E exp \in ExpDomain :
        /\ op' = "sqlite_level"
        /\ arg' = exp
        /\ ret' = sqlite_level(exp)

cmd_query_level ==
    /\ op = "start"
    /\ \E level \in LevelDomain :
        /\ op' = "cmd_query_level"
        /\ arg' = level
        /\ ret' = query_level(level)

Call_generate_all_charts ==
    /\ op = "start"
    /\ \E fails \in ChartFails :
        /\ op' = "generate_all_charts"
        /\ arg' = fails
        /\ ret' = generate_all_charts(fails)

Call_generate_all_sql_scripts ==
    /\ op = "start"
    /\ \E fails \in ScriptFails :
        /\ op' = "generate_all_sql_scripts"
        /\ arg' = fails
        /\ ret' = generate_all_sql_scripts(fails)

Call_main ==
    /\ op = "start"
    /\ \E argv \in Argvs, outcome \in Outcomes :
        /\ op' = "main"
        /\ arg' = [argv |-> argv, outcome |-> outcome]
        /\ ret' = main(argv, outcome)

\* an event at the prompt: a line, a keyboard interrupt or the end of input
Event(kind, text) == [kind |-> kind, text |-> text]

\* interactive_query up to its first prompt; arg is the events so far
Start_interactive_query ==
    /\ op = "start"
    /\ op' = "interactive_query"
    /\ arg' = <<>>
    /\ ret' = [pc |-> "prompt", out |-> <<>>]

AtPrompt == op = "interactive_query" /\ ret.pc = "prompt" /\ Len(arg) < MaxEvents

Input_line ==
    /\ AtPrompt
    /\ \E line \in Lines :
        /\ arg' = Append(arg, Event("line", line))
        /\ ret' = LoopLine(ret, line)
    /\ UNCHANGED op

Input_interrupt ==
    /\ AtPrompt
    /\ arg' = Append(arg, Event("KeyboardInterrupt", <<>>))
    /\ ret' = LoopInterrupt(ret)
    /\ UNCHANGED op

Input_eof ==
    /\ AtPrompt
    /\ arg' = Append(arg, Event("EOF", <<>>))
    /\ ret' = LoopEOF(ret)
    /\ UNCHANGED op

Next ==
    \/ Call_exp_to_level
    \/ Call_level_to_min_exp
    \/ Call_get_level_range
    \/ cmd_query_exp
    \/ Call_batch_exp_to_level
    \/ Call_parse_exp_range
    \/ Call_calculate_level_distribution
    \/ Run_sqlite_update
    \/ cmd_query_level
    \/ Call_generate_all_charts
    \/ Call_generate_all_sql_scripts
    \/ Call_main
    \/ Start_interactive_query
    \/ Input_line
    \/ Input_interrupt
    \/ Input_eof

Spec == Init /\ [][Next]_vars

----------------------------------------------------------------------------
(* The two mappings over the inputs of the model, for the properties that  *)
(* compare the result of a call with the mapping at other arguments.       *)

ExpToLevelTable == [e \in ExpDomain |-> exp_to_level(e)]

LevelOf(e) ==
    IF e \in ExpDomain THEN ExpToLevelTable[e] ELSE exp_to_level(e)

LevelToMinExpTable == [l \in LevelDomain |-> level_to_min_exp(l)]

MinExpOf(l) ==
    IF l \in LevelDomain THEN LevelToMinExpTable[l] ELSE level_to_min_exp(l)

----------------------------------------------------------------------------
\* C1: exp_to_level returns a level in 1..50 for every integer EXP,
\* negative, zero, positive or far above the cap.
C1_LevelInRange ==
    op = "exp_to_level" => ret \in 1..50

C1_Witness ==
    op = "exp_to_level" /\ arg \in FarExp /\ ret = 50

\* C2: exp_to_level is monotonic non-decreasing: the level returned for an
\* EXP is at least the level of every smaller EXP and at most the level of
\* every larger one.
C2_Monotonic ==
    op = "exp_to_level"
        => \A e \in ExpDomain :
              /\ e <= arg => LevelOf(e) <= ret
              /\ arg <= e => ret <= LevelOf(e)

C2_Witness ==
    op = "exp_to_level" /\ arg > 0 /\ ret > 1 /\ ret < 50
        /\ LevelOf(arg - 1) < ret

\* C3: every negative EXP has the level of EXP 0, and that level is 1.
C3_NegativeIsZero ==
    (op = "exp_to_level" /\ arg <= 0) => (ret = LevelOf(0) /\ ret = 1)

C3_Witness ==
    op = "exp_to_level" /\ arg < 0 /\ ret = 1

\* C4: exp_to_level(50000) = 50 and every EXP at or above the cap has
\* level 50.
C4_Saturates ==
    (op = "exp_to_level" /\ arg >= exp_cap) => ret = 50

C4_Witness ==
    op = "exp_to_level" /\ arg = exp_cap /\ ret = 50

\* C5: for a level L in 2..49, level_to_min_exp(L) is the least EXP whose
\* level is L or more: its level is at least L, and the level of the EXP
\* just below it is less than L.
C5_MinExpReachesLevel ==
    (op = "level_to_min_exp" /\ arg \in 2..49)
        => (LevelOf(ret) >= arg /\ LevelOf(ret - 1) < arg)

\* C6: for a level L in 2..49, the level of level_to_min_exp(L) differs
\* from L by at most 1.
C6_RoundTrip ==
    (op = "level_to_min_exp" /\ arg \in 2..49)
        => (LevelOf(ret) - arg \in -1..1)

C6_Witness ==
    op = "level_to_min_exp" /\ arg \in 2..49 /\ LevelOf(ret) = arg - 1

\* C7: level_to_min_exp returns 0 for every level <= 1 and 50000 for every
\* level >= 50, and the level of level_to_min_exp(50) is 50.
C7_Boundaries ==
    op = "level_to_min_exp"
        => /\ arg <= 1 => ret = 0
           /\ arg >= 50 => (ret = 50000 /\ LevelOf(ret) = 50)

C7_Witness ==
    op = "level_to_min_exp" /\ arg > 50 /\ ret = 50000

\* C8: level_to_min_exp is monotonic non-decreasing over all levels, the
\* pinned boundaries included, and level_to_min_exp(25) lies strictly
\* between level_to_min_exp(24) and level_to_min_exp(26).
C8_MinExpMonotonic ==
    op = "level_to_min_exp"
        => /\ \A l \in LevelDomain :
                /\ l <= arg => MinExpOf(l) <= ret
                /\ arg <= l => ret <= MinExpOf(l)
           /\ arg = 25 => (MinExpOf(24) < ret /\ ret < MinExpOf(26))

C8_Witness ==
    op = "level_to_min_exp" /\ arg = 50 /\ MinExpOf(49) < ret /\ ret = MinExpOf(51)

\* C9: get_level_range(L) is (level_to_min_exp(L), level_to_min_exp(L+1) - 1)
\* for L in 1..49 and (50000, infinity) for L = 50; the upper end of the
\* range of L plus 1 is the lower end of the range of L + 1.
C9_RangeFromMinExp ==
    op = "get_level_range"
        => /\ arg \in 1..49 =>
                /\ ret = <<MinExpOf(arg), MinExpOf(arg + 1) - 1>>
                /\ ret[2] + 1 = get_level_range(arg + 1)[1]
           /\ arg = 50 => ret = <<50000, Inf>>

C9_Witness ==
    op = "get_level_range" /\ arg \in 1..49 /\ ret[1] <= ret[2]

\* C10: the range printed by `query --exp` for the level of a non-negative
\* EXP contains that EXP, every EXP of the range has that level, and the
\* remaining EXP to the next level is at least 1 below level 50.
C10_RangeIsLevelInterval ==
    (op = "cmd_query_exp" /\ arg >= 0)
        => /\ ret.min_exp <= arg /\ arg <= ret.max_exp
           /\ LevelOf(ret.min_exp) = ret.level
           /\ ret.max_exp # Inf => LevelOf(ret.max_exp) = ret.level
           /\ ~ret.at_max => ret.remaining >= 1

\* C11: exp_to_level(500), the truncation of
\* 1 + 49 * (ln(501) / ln(50001))^3.45, is level 5.
C11_Exp500IsLevel5 ==
    (op = "exp_to_level" /\ arg = 500) => ret = 5

\* C11 as amended: exp_to_level(500) is level 8.
C11_Exp500IsLevel8 ==
    (op = "exp_to_level" /\ arg = 500) => ret = 8

C11_Witness ==
    op = "exp_to_level" /\ arg = 500 /\ ret = 8

\* C12: batch_exp_to_level returns as many levels as it was given EXP
\* values, and its i-th level is exp_to_level of the i-th EXP, whatever the
\* other elements are.
C12_BatchElementwise ==
    op = "batch_exp_to_level"
        => /\ Len(ret) = Len(arg)
           /\ \A i \in 1..Len(arg) : ret[i] = LevelOf(arg[i])

C12_Witness ==
    op = "batch_exp_to_level" /\ Len(arg) = 3
        /\ ret[1] > ret[2] /\ ret[2] < ret[3] /\ arg[1] # arg[3]

\* the level C13 attributes a row to, and sums of counts
MidLevel(row) ==
    LET range == parse_exp_range(row[1]).value
    IN  LevelOf((range[1] + range[2]) \div 2)

SumCounts[df \in Seq(Str \X Int), k \in Nat] ==
    IF k = 0 THEN 0 ELSE SumCounts[df, k - 1] + df[k][2]

SumOfLevel[df \in Seq(Str \X Int), k \in Nat, level \in Int] ==
    IF k = 0 THEN 0
    ELSE SumOfLevel[df, k - 1, level]
            + (IF MidLevel(df[k]) = level THEN df[k][2] ELSE 0)

SumUsers[rows \in Seq([level : Int, user_count : Int]), k \in Nat] ==
    IF k = 0 THEN 0 ELSE SumUsers[rows, k - 1] + rows[k].user_count

\* C13: for a non-empty table, calculate_level_distribution returns one row
\* per distinct level, in ascending level order, whose user_count is the sum
\* of the counts of the input rows whose range midpoint has that level; the
\* user_counts add up to the sum of the input counts.
C13_DistributionConserves ==
    op = "calculate_level_distribution"
        => /\ \A i \in 1..(Len(ret) - 1) : ret[i].level < ret[i + 1].level
           /\ {ret[i].level : i \in 1..Len(ret)}
                = {MidLevel(arg[k]) : k \in 1..Len(arg)}
           /\ \A i \in 1..Len(ret) :
                ret[i].user_count = SumOfLevel[arg, Len(arg), ret[i].level]
           /\ SumUsers[ret, Len(ret)] = SumCounts[arg, Len(arg)]

C13_Witness ==
    op = "calculate_level_distribution" /\ Len(arg) = 2 /\ Len(ret) = 1
        /\ arg[1][1] # arg[2][1] /\ arg[2][1][1] = "x"
        /\ ret[1].user_count = arg[1][2] + arg[2][2]

\* the thresholds the CASE table of the SQLite script lists
SqlThresholds == {SqlCase[i][1] : i \in 1..Len(SqlCase)} \cup {exp_cap}

\* C14: at every threshold T of its CASE table the SQLite script assigns to
\* exp = T the level exp_to_level(T).
C14_SqliteAgreesAtThresholds ==
    (op = "sqlite_level" /\ arg \in SqlThresholds) => ret = LevelOf(arg)

\* C15: query --level L with L outside [1,50] reports an error, calls
\* level_to_min_exp not at all, prints no result and does not raise; the
\* command calls level_to_min_exp only when 1 <= L <= 50.
C15_LevelRangeChecked ==
    op = "cmd_query_level"
        => /\ ~ret.raised
           /\ (arg < 1 \/ arg > 50)
                => (ret.error /\ ret.calls = <<>> /\ ret.printed = <<>>)
           /\ ret.calls # <<>> => (1 <= arg /\ arg <= 50 /\ ~ret.error)

C15_Witness ==
    op = "cmd_query_level" /\ arg = 0 /\ ret.error /\ ret.calls = <<>>

\* the artifacts of a batch that are in fails, in the order of the batch
FailedOf(batch, fails) == SelectSeq(batch, LAMBDA a : a \in fails)

\* C16: in generate_all_charts and in generate_all_sql_scripts a failing
\* artifact is caught and reported, and every artifact of the batch is
\* attempted exactly once in the listed order.
C16_BatchesIsolated ==
    /\ op = "generate_all_charts"
        => (~ret.raised /\ ret.attempted = charts
                /\ ret.reported = FailedOf(charts, arg))
    /\ op = "generate_all_sql_scripts"
        => (~ret.raised /\ ret.attempted = scripts
                /\ ret.reported = FailedOf(scripts, arg))

\* C17: on a command line of one command, with or without --debug, whose
\* handler raises an unexpected exception, main prints a one-line message
\* and returns, and prints the trace if and only if --debug is on the
\* command line.
C17_TraceIffDebug ==
    (op = "main" /\ arg.outcome = "Exception"
        /\ Len(SelectSeq(arg.argv, LAMBDA w : w # "--debug")) = 1)
        => /\ ret.exit = "return"
           /\ ret.message
           /\ ret.trace <=> InArgv("--debug", arg.argv)

\* the labels of the cases of C18
DashCount(s) == Cardinality({i \in 1..Len(s) : s[i] = "-"})
WellFormedRange(s) ==
    \E i \in 2..(Len(s) - 1) :
        /\ s[i] = "-"
        /\ \A j \in 1..Len(s) : j # i => IsDigit(s[j])
BareInteger(s) == AllDigits(s)
Malformed(s) ==
    \/ \E i \in 1..Len(s) : s[i] = "x"
    \/ DashCount(s) > 1
    \/ s # <<>> /\ (s[1] = "-" \/ s[Len(s)] = "-")
    \/ s = <<>>

\* C18: parse_exp_range never raises; a label "a-b" of two non-negative
\* integers gives (a, b), a bare integer "n" gives (n, n), and a malformed
\* label (a letter in it, an empty part, more than one separator, a leading
\* minus sign) gives (0, 0), whose midpoint 0 has level 1.
C18_ParseNeverRaises ==
    op = "parse_exp_range"
        => /\ ~ret.raised
           /\ WellFormedRange(arg) =>
                \E i \in 2..(Len(arg) - 1) :
                    /\ arg[i] = "-"
                    /\ ret.value = <<DecimalValue[SubSeq(arg, 1, i - 1)],
                                     DecimalValue[SubSeq(arg, i + 1, Len(arg))]>>
           /\ BareInteger(arg) =>
                ret.value = <<DecimalValue[arg], DecimalValue[arg]>>
           /\ Malformed(arg) =>
                /\ ret.value = <<0, 0>>
                /\ LevelOf((ret.value[1] + ret.value[2]) \div 2) = 1

C18_Witness ==
    op = "parse_exp_range" /\ DashCount(arg) = 2 /\ arg[1] = "1" /\ arg[3] = "9"
        /\ ret.value = <<0, 0>>
\* C19: the level the SQLite script assigns is monotonic non-decreasing in
\* exp, also from the last table branch (exp <= 40000) to the formula
\* branch (exp = 40001).
C19_SqliteMonotonic ==
    op = "sqlite_level"
        => \A e \in ExpDomain : e <= arg => sqlite_level(e) <= ret

\* the lines that end the session
IsQuit(event) == event.kind = "line" /\ lower[strip[event.text]] = <<"q">>

\* C20: the session of interactive_query ends only on the line q or on a
\* keyboard interrupt, every other line leads back to the prompt, a line
\* that is no integer prints an error and computes nothing, and no
\* exception leaves interactive_query, also at the end of input.
C20_SessionEndsOnlyOnQuit ==
    (op = "interactive_query" /\ arg # <<>>)
        => LET last == arg[Len(arg)]
           IN  /\ ret.pc # "raised"
               /\ ret.pc = "exited" <=> (IsQuit(last) \/ last.kind = "KeyboardInterrupt")
               /\ (last.kind = "line" /\ ~IsQuit(last)
                        /\ ~IntOfStripped[strip[last.text]][1])
                    => ret.out[Len(ret.out)].kind = "invalid"

====
